---- MODULE Spec2Model ----
(***************************************************************************)
(* strace-tree: organise "strace -ff" output into a tree of subprocesses.  *)
(*                                                                         *)
(* Three specifications over one set of variables:                         *)
(*   SpecScan  StraceFile.__init__ scanning one trace file line by line    *)
(*   SpecTree  tree(procs) on a collection of scanned records              *)
(*   SpecWalk  the __main__ loop (_print_proc, _ln_tree) run twice         *)
(*                                                                         *)
(* Text is a sequence of symbols.  A symbol is one character, or one word  *)
(* of a line that no pattern looks into ("execve", "sh", "bin").           *)
(***************************************************************************)
EXTENDS Integers, Sequences, FiniteSets, TLC

VARIABLES
    file,      \* scan: the lines of the open trace file, as written by strace
    lineno,    \* scan: number of lines of `file` the for loop has consumed
    sf,        \* scan: the StraceFile under construction
    procs,     \* tree/walk: pid -> StraceFile
    inits,     \* tree: whether tree() has returned, and the keys of its result
    run,       \* walk: 1 for the first invocation of the program, 2 for the second
    pc,        \* walk: position of the __main__ loop
    roots,     \* walk: the inits still to be handled by the for loop at line 103
    phase,     \* walk: which recursive function owns `stack`
    stack,     \* walk: the call stack of _print_proc / _ln_tree
    out,       \* walk: lines printed so far in this run
    dirs,      \* walk: directories that exist below the working directory
    links,     \* walk: hard links that exist, path -> linked trace file
    linked,    \* walk: os.link calls made in this run
    fs1        \* walk: directories and links as the first run left them

vars == <<file, lineno, sf, procs, inits, run, pc, roots, phase, stack, out,
          dirs, links, linked, fs1>>

scanVars == <<file, lineno, sf>>
treeVars == <<procs, inits>>
walkVars == <<run, pc, roots, phase, stack, out, dirs, links, linked, fs1>>

----------------------------------------------------------------------------
(* Bounds *)

MaxLines == 3
NPids == 3

----------------------------------------------------------------------------
(* Text helpers *)

Q == "\""
WS == {" ", "\n", "\t"}
Digits == {"0", "1", "2", "3", "4", "5", "6", "7", "8", "9"}
None == <<"<None>">>
NoMatch == [matched |-> FALSE]

Max(S) == CHOOSE x \in S : \A y \in S : y <= x
Min(S) == CHOOSE x \in S : \A y \in S : x <= y

DigitVal(d) ==
    CASE d = "0" -> 0 [] d = "1" -> 1 [] d = "2" -> 2 [] d = "3" -> 3
      [] d = "4" -> 4 [] d = "5" -> 5 [] d = "6" -> 6 [] d = "7" -> 7
      [] d = "8" -> 8 [] d = "9" -> 9

RECURSIVE ParseInt(_)
ParseInt(ds) ==
    IF ds = <<>> THEN 0
    ELSE 10 * ParseInt(SubSeq(ds, 1, Len(ds) - 1)) + DigitVal(ds[Len(ds)])

RECURSIVE LStrip(_)
LStrip(s) == IF s # <<>> /\ Head(s) \in WS THEN LStrip(Tail(s)) ELSE s

RECURSIVE RStrip(_)
RStrip(s) ==
    IF s # <<>> /\ s[Len(s)] \in WS THEN RStrip(SubSeq(s, 1, Len(s) - 1)) ELSE s

Strip(s) == RStrip(LStrip(s))

StartsWith(s, i, lit) ==
    /\ i >= 1
    /\ i + Len(lit) - 1 <= Len(s)
    /\ SubSeq(s, i, i + Len(lit) - 1) = lit

\* Index of the first symbol of s at or after i that lies in set C, 0 if none.
FirstIn(s, i, C) ==
    LET I == {k \in i..Len(s) : s[k] \in C}
    IN  IF I = {} THEN 0 ELSE Min(I)

\* os.path.basename: what follows the last "/".
Basename(path) ==
    LET I == {k \in 1..Len(path) : path[k] = "/"}
    IN  IF I = {} THEN path ELSE SubSeq(path, Max(I) + 1, Len(path))

----------------------------------------------------------------------------
(* The two patterns, each applied with fullmatch to the stripped line *)

\* Mutant: the pattern without its "= 0" ending, any return value accepted:
\* \S+ execve\("(?P<exec>[^"]+)", \["(?P<name>[^"]*)"(?P<args>.+)\].+\) = .+
RE_EXECVE_AnyReturn(line) ==
    LET n  == Len(line)
        p  == FirstIn(line, 1, WS)
        e1 == p + 4
        q1 == FirstIn(line, e1, {Q})
        n1 == q1 + 5
        q2 == FirstIn(line, n1, {Q})
        a1 == q2 + 1
        M  == {m \in 1..(n - 4) : StartsWith(line, m, <<")", " ", "=", " ">>)}
        K  == {k \in (a1 + 1)..n : line[k] = "]" /\ \E m \in M : k + 1 < m}
    IN  IF /\ p >= 2
           /\ StartsWith(line, p, <<" ", "execve", "(", Q>>)
           /\ q1 > e1
           /\ StartsWith(line, q1, <<Q, ",", " ", "[", Q>>)
           /\ q2 >= n1
           /\ K # {}
        THEN [matched |-> TRUE,
              exec    |-> SubSeq(line, e1, q1 - 1),
              name    |-> SubSeq(line, n1, q2 - 1),
              args    |-> SubSeq(line, a1, Max(K) - 1)]
        ELSE NoMatch

\* \S+ execve\("(?P<exec>[^"]+)", \["(?P<name>[^"]*)"(?P<args>.+)\].+\) = 0
\* Only `args` has a choice of where to end: it is greedy, so it ends at the
\* last "]" that leaves at least one symbol before the closing ") = 0".
RE_EXECVE(line) ==
    LET n  == Len(line)
        p  == FirstIn(line, 1, WS)
        e1 == p + 4
        q1 == FirstIn(line, e1, {Q})
        n1 == q1 + 5
        q2 == FirstIn(line, n1, {Q})
        a1 == q2 + 1
        K  == {k \in (a1 + 1)..(n - 6) : line[k] = "]"}
    IN  IF /\ p >= 2
           /\ StartsWith(line, p, <<" ", "execve", "(", Q>>)
           /\ q1 > e1
           /\ StartsWith(line, q1, <<Q, ",", " ", "[", Q>>)
           /\ q2 >= n1
           /\ StartsWith(line, n - 4, <<")", " ", "=", " ", "0">>)
           /\ \A k \in a1..(n - 5) : line[k] # "\n"
           /\ K # {}
        THEN [matched |-> TRUE,
              exec    |-> SubSeq(line, e1, q1 - 1),
              name    |-> SubSeq(line, n1, q2 - 1),
              args    |-> SubSeq(line, a1, Max(K) - 1)]
        ELSE NoMatch

\* \S+ (clone|vfork)\(.*\)\s* = (?P<pid>[0-9]+)
RE_CLONE(line) ==
    LET n  == Len(line)
        p  == FirstIn(line, 1, WS)
        b  == p + 3
        nd == {k \in 1..n : line[k] \notin Digits}
        d  == IF nd = {} THEN 1 ELSE Max(nd) + 1
        nw == {k \in 1..(d - 4) : line[k] \notin WS}
        r  == IF nw = {} THEN 0 ELSE Max(nw)
    IN  IF /\ p >= 2
           /\ \/ StartsWith(line, p, <<" ", "clone", "(">>)
              \/ StartsWith(line, p, <<" ", "vfork", "(">>)
           /\ d <= n
           /\ StartsWith(line, d - 3, <<" ", "=", " ">>)
           /\ r >= b
           /\ line[r] = ")"
           /\ \A k \in b..(r - 1) : line[k] # "\n"
        THEN [matched |-> TRUE, pid |-> SubSeq(line, d, n)]
        ELSE NoMatch

----------------------------------------------------------------------------
(* Trace files.  A file is the sequence of system calls one process made;   *)
(* Render writes a call the way strace prints it, and that text is what the *)
(* scanner reads.                                                            *)

Stamp == <<"12:00:01">>
EnvNew == <<"0x7ffc", " ", "/*", " ", "3", " ", "vars", " ", "*/">>
EnvOld == <<"[", "/*", " ", "3", " ", "vars", " ", "*/", "]">>

RECURSIVE ShowNat(_)
ShowNat(n) ==
    LET d == CHOOSE c \in Digits : DigitVal(c) = n % 10
    IN  IF n < 10 THEN <<d>> ELSE ShowNat(n \div 10) \o <<d>>

RECURSIVE RenderArgs(_)
RenderArgs(argv) ==
    IF argv = <<>> THEN <<>>
    ELSE <<",", " ", Q>> \o Head(argv) \o <<Q>> \o RenderArgs(Tail(argv))

\* ["a0", "a1", ...]
RenderArgv(argv) ==
    IF argv = <<>> THEN <<"[", "]">>
    ELSE <<"[", Q>> \o Head(argv) \o <<Q>> \o RenderArgs(Tail(argv)) \o <<"]">>

RenderRet(ev) ==
    IF ev.ret >= 0 THEN <<" ", "=", " ">> \o ShowNat(ev.ret)
    ELSE <<" ", "=", " ", "-">> \o ShowNat(0 - ev.ret)
         \o <<" ">> \o ev.text

Render(ev) ==
    CASE ev.call = "execve" ->
           Stamp \o <<" ", "execve", "(", Q>> \o ev.path \o <<Q, ",", " ">>
           \o RenderArgv(ev.argv) \o <<",", " ">>
           \o (IF ev.oldenv THEN EnvOld ELSE EnvNew) \o <<")">>
           \o RenderRet(ev) \o <<"\n">>
      [] ev.call = "clone" ->
           Stamp \o <<" ", "clone", "(", "child_stack=NULL", ",", " ",
                      "flags=CLONE_CHILD_SETTID|SIGCHLD", ")">>
           \o RenderRet(ev) \o <<"\n">>
      [] ev.call = "vfork" ->
           Stamp \o <<" ", "vfork", "(", ")">> \o RenderRet(ev) \o <<"\n">>
      [] OTHER -> ev.text \o <<"\n">>

Call(call, path, argv, oldenv, ret, text) ==
    [call |-> call, path |-> path, argv |-> argv, oldenv |-> oldenv,
     ret |-> ret, text |-> text]

ENOENT == <<"ENOENT", " ", "(", "No such file or directory", ")">>
EAGAIN == <<"EAGAIN", " ", "(", "Resource temporarily unavailable", ")">>

ExecSh   == Call("execve", <<"/", "bin", "/", "sh">>,
                 <<(<<"sh">>), (<<"-c">>), (<<"true">>)>>, FALSE, 0, <<>>)
ExecEnv  == Call("execve", <<"/", "usr", "/", "bin", "/", "env">>,
                 <<(<<"env">>), (<<"ls">>)>>, TRUE, 0, <<>>)
ExecTrue == Call("execve", <<"/", "bin", "/", "true">>,
                 <<(<<"true">>)>>, FALSE, 0, <<>>)
ExecFail == Call("execve", <<"/", "bin", "/", "nope">>,
                 <<(<<"nope">>), (<<"-x">>)>>, FALSE, -1, ENOENT)
CloneOk(p) == Call("clone", <<>>, <<>>, FALSE, p, <<>>)
VforkOk(p) == Call("vfork", <<>>, <<>>, FALSE, p, <<>>)
CloneFail  == Call("clone", <<>>, <<>>, FALSE, -1, EAGAIN)
VforkFail  == Call("vfork", <<>>, <<>>, FALSE, -1, EAGAIN)
WriteLine  == Call("write", <<>>, <<>>, FALSE, 0,
                   Stamp \o <<" ", "write", "(", "1", ",", " ", Q, "clone", "(",
                              ")", " ", "=", " ", "2", Q, ",", " ", "1", "1",
                              ")", " ", "=", " ", "1", "1">>)
ExitLine   == Call("exit", <<>>, <<>>, FALSE, 0,
                   <<"+++", " ", "exited", " ", "with", " ", "0", " ", "+++">>)

Calls == {ExecSh, ExecEnv, ExecTrue, ExecFail, CloneOk(2), VforkOk(13),
          CloneFail, VforkFail, WriteLine, ExitLine}

Files == UNION {[1..n -> Calls] : n \in 0..MaxLines}

----------------------------------------------------------------------------
(* StraceFile *)

FileName(pid) == <<"trace", ".", pid>>

\* StraceFile.__init__ before the file is opened
NewStraceFile(filename) ==
    [filename |-> filename, pid |-> filename[3], named |-> FALSE,
     execve |-> None, name |-> None, args |-> None, clones |-> {}]

\* One iteration of the for loop over the lines of the file
ScanText(rec, text) ==
    LET line == Strip(text)
        ex   == RE_EXECVE(line)
        cl   == RE_CLONE(line)
    IN  IF ex.matched
        THEN IF ~rec.named
             THEN [rec EXCEPT !.named = TRUE,
                              !.execve = ex.exec,
                              !.name = ex.name,
                              !.args = <<Q>> \o ex.name \o <<Q>> \o ex.args]
             ELSE rec
        ELSE IF cl.matched
             THEN [rec EXCEPT !.clones = @ \cup {ParseInt(cl.pid)}]
             ELSE rec

execve_basename(rec) == IF rec.execve = None THEN None ELSE Basename(rec.execve)
name_basename(rec) == IF rec.name = None THEN None ELSE Basename(rec.name)

NotYet == [returned |-> FALSE, pids |-> {}]
NoFs == [dirs |-> {}, links |-> {}]

WalkIdle ==
    /\ run = 0 /\ pc = "idle" /\ roots = <<>> /\ phase = "none"
    /\ stack = <<>> /\ out = <<>> /\ dirs = {} /\ links = {}
    /\ linked = 0 /\ fs1 = NoFs

InitScan ==
    /\ file \in Files
    /\ lineno = 0
    /\ sf = NewStraceFile(FileName(1))
    /\ procs = <<>>
    /\ inits = NotYet
    /\ WalkIdle

ScanLine ==
    /\ lineno < Len(file)
    /\ lineno' = lineno + 1
    /\ sf' = ScanText(sf, Render(file[lineno + 1]))
    /\ UNCHANGED <<file, treeVars, walkVars>>

NextScan == ScanLine

SpecScan == InitScan /\ [][NextScan]_vars

----------------------------------------------------------------------------
(* Claims about the scan (SpecScan) *)

\* What the traced process did, independent of how the scanner reads it.
Succeeded(ev) == ev.call = "execve" /\ ev.ret = 0
FirstExecve(i) == Succeeded(file[i]) /\ \A j \in 1..(i - 1) : ~Succeeded(file[j])
\* The argument list between its brackets, as strace printed it.
ArgvText(argv) == SubSeq(RenderArgv(argv), 2, Len(RenderArgv(argv)) - 1)
Holds(rec, ev) ==
    /\ rec.named
    /\ rec.execve = ev.path
    /\ rec.name = ev.argv[1]
    /\ rec.args = ArgvText(ev.argv)

\* C4: after the scan of a file with several successful execve lines, the
\* record's path, name and args are those of the first such line.
C4_FirstExecWins ==
    (/\ lineno = Len(file)
     /\ Cardinality({i \in 1..Len(file) : Succeeded(file[i])}) >= 2)
    => \A i \in 1..Len(file) : FirstExecve(i) => Holds(sf, file[i])

\* C5: a step over a failed execve line leaves named, execve, name and args
\* alone; a step over a failed clone or vfork line leaves clones alone; a
\* step over a line neither pattern matches leaves the whole record alone.
C5_FailedCallsChangeNothing ==
    [][lineno' = lineno + 1 =>
        LET ev   == file[lineno + 1]
            line == Strip(Render(ev))
        IN  /\ (ev.call = "execve" /\ ev.ret # 0) =>
                 /\ sf'.named = sf.named
                 /\ sf'.execve = sf.execve
                 /\ sf'.name = sf.name
                 /\ sf'.args = sf.args
            /\ (ev.call \in {"clone", "vfork"} /\ ev.ret < 0) =>
                 sf'.clones = sf.clones
            /\ (~RE_EXECVE(line).matched /\ ~RE_CLONE(line).matched) =>
                 sf' = sf]_vars

\* A successful clone, then a failed execve, then a failed clone were scanned.
C5_Witness ==
    /\ lineno = 3
    /\ file[1] = CloneOk(2)
    /\ file[2] = ExecFail
    /\ file[3] = CloneFail
    /\ sf.clones = {2}
    /\ ~sf.named

\* C6: the first successful execve line of a file is captured also when its
\* argument list holds the display name and nothing else.
C6_BareArgvRecognised ==
    \A i \in 1..lineno :
        (FirstExecve(i) /\ Len(file[i].argv) = 1) => Holds(sf, file[i])

----------------------------------------------------------------------------
(* tree(procs) *)

Pids == 1..NPids

\* What a scan can leave in execve, name and args: the odd pids, when they
\* execute at all, execute /sbin/init and the even ones /bin/sh.
Image(pid) ==
    IF pid % 2 = 1
    THEN [execve |-> <<"/", "sbin", "/", "init">>, name |-> <<"init">>,
          args |-> <<Q, "init", Q, ",", " ", Q, "--user", Q>>]
    ELSE [execve |-> <<"/", "bin", "/", "sh">>, name |-> <<"sh">>,
          args |-> <<Q, "sh", Q, ",", " ", Q, "-c", Q>>]

\* The record StraceFile.__init__ returns for file trace.<pid>, given whether
\* a successful execve was recognised and which pids were recognised as spawned.
Scanned(pid, named, cs) ==
    IF named
    THEN [NewStraceFile(FileName(pid)) EXCEPT
             !.named = TRUE, !.execve = Image(pid).execve,
             !.name = Image(pid).name, !.args = Image(pid).args,
             !.clones = cs]
    ELSE [NewStraceFile(FileName(pid)) EXCEPT !.clones = cs]

\* lines 66, 70: the union of every record's clones
AllClones(ps) == UNION {ps[p].clones : p \in DOMAIN ps}

\* Mutant: the list of procs.get(clone) kept as it is, None included.
ChildrenOf_Unfiltered(ps, p) == ps[p].clones

\* Mutant: a record is never taken as its own child.
ChildrenOf_NotSelf(ps, p) == {c \in ps[p].clones : c \in DOMAIN ps /\ c # p}

\* line 71: procs.get(clone) for each clone, None dropped by the filter
ChildrenOf(ps, p) == {c \in ps[p].clones : c \in DOMAIN ps}

\* Mutant: the label chosen by what the record itself spawned.
SyntheticName_OwnClones(ps, p) ==
    IF ps[p].clones # {} THEN <<"clone">> ELSE <<"init">>

\* lines 75-78
SyntheticName(ps, p) ==
    IF ps[p].pid \in AllClones(ps) THEN <<"clone">> ELSE <<"init">>

\* Mutant: a record's own clones are not consulted for its own pid.
Inits_OthersOnly(ps) ==
    {p \in DOMAIN ps :
        \A q \in DOMAIN ps \ {p} : ps[p].pid \notin ps[q].clones}

\* Mutant: only records that spawned something are returned.
Inits_Spawners(ps) ==
    {p \in DOMAIN ps : ps[p].pid \notin AllClones(ps) /\ ps[p].clones # {}}

\* lines 80-81
Inits(ps) == {p \in DOMAIN ps : ps[p].pid \notin AllClones(ps)}

\* The records as tree() leaves them.
TreeProcs(ps) ==
    [p \in DOMAIN ps |->
        [filename |-> ps[p].filename,
         pid      |-> ps[p].pid,
         named    |-> ps[p].named,
         execve   |-> IF ps[p].named THEN ps[p].execve ELSE SyntheticName(ps, p),
         name     |-> IF ps[p].named THEN ps[p].name ELSE SyntheticName(ps, p),
         args     |-> ps[p].args,
         clones   |-> ps[p].clones,
         children |-> ChildrenOf(ps, p)]]

\* processes(filenames): one record per file given, keyed by its pid.
InitProcs ==
    \E K \in SUBSET Pids \ {{}} :
        \E nm \in [K -> BOOLEAN] :
            \E cl \in [K -> SUBSET Pids] :
                procs = [p \in K |-> Scanned(p, nm[p], cl[p])]

InitTree ==
    /\ InitProcs
    /\ inits = NotYet
    /\ file = <<>> /\ lineno = 0 /\ sf = NewStraceFile(FileName(1))
    /\ WalkIdle

Tree ==
    /\ ~inits.returned
    /\ procs' = TreeProcs(procs)
    /\ inits' = [returned |-> TRUE, pids |-> Inits(procs)]
    /\ UNCHANGED <<scanVars, walkVars>>

NextTree == Tree

SpecTree == InitTree /\ [][NextTree]_vars

----------------------------------------------------------------------------
(* Claims about tree() (SpecTree) *)

Keys == DOMAIN procs
Parents(p) == {q \in Keys : p \in procs[q].children}

RECURSIVE Reach(_)
\* The records reachable from the set S by children edges (S included).
Reach(S) ==
    LET T == S \cup UNION {procs[q].children : q \in S}
    IN  IF T = S THEN S ELSE Reach(T)

\* A record that is its own descendant.
OnCycle(c) == c \in Reach(procs[c].children)

\* C1: after tree() the children of a record are the spawned pids that have
\* a record: none is missing, none without a record is kept, none is added.
C1_ChildrenAreSpawnedWithRecord ==
    inits.returned =>
        \A r \in Keys :
            /\ \A c \in procs[r].clones : c \in Keys => c \in procs[r].children
            /\ \A c \in procs[r].children : c \in Keys /\ c \in procs[r].clones

\* A record spawned one pid that has a record and one that has none.
C1_Witness ==
    /\ inits.returned
    /\ \E r \in Keys :
          /\ \E c \in procs[r].clones : c \notin Keys
          /\ procs[r].children # {}
          /\ procs[r].children # procs[r].clones

\* C2: tree() returns exactly the records no record, itself included,
\* recorded as spawned, whether or not they have children.
C2_RootsAreUnspawned ==
    inits.returned =>
        inits.pids = {p \in Keys : \A q \in Keys : procs[p].pid \notin procs[q].clones}

\* A root with children, a root without, and a record that spawned itself.
C2_Witness ==
    /\ inits.returned
    /\ \E r \in inits.pids : procs[r].children # {}
    /\ \E r \in inits.pids : procs[r].children = {}
    /\ \E r \in Keys \ inits.pids : r \in procs[r].clones

\* C3: the step of tree() gives a record without a recognised execve the name
\* and path "clone" when its pid was spawned by some record and "init"
\* otherwise, and leaves the name and path of the others as captured; the
\* synthetic "init" is carried by returned roots only, "clone" by no root.
C3_SyntheticNames ==
    [][(~inits.returned /\ inits'.returned) =>
        \A p \in DOMAIN procs :
            LET old == procs[p]
                new == procs'[p]
                lbl == IF p \in UNION {procs[q].clones : q \in DOMAIN procs}
                       THEN <<"clone">> ELSE <<"init">>
            IN  /\ new.named = old.named
                /\ old.named => new.name = old.name /\ new.execve = old.execve
                /\ ~old.named => new.name = lbl /\ new.execve = lbl
                /\ (~new.named /\ new.name = <<"init">>) => p \in inits'.pids
                /\ (~new.named /\ new.name = <<"clone">>) => p \notin inits'.pids]_vars

\* An unnamed root, an unnamed spawned record, and a spawned record whose own
\* execve named it "init".
C3_Witness ==
    /\ inits.returned
    /\ \E p \in inits.pids : ~procs[p].named /\ procs[p].name = <<"init">>
    /\ \E p \in Keys \ inits.pids : ~procs[p].named /\ procs[p].name = <<"clone">>
    /\ \E p \in Keys \ inits.pids : procs[p].named /\ procs[p].name = <<"init">>

\* C7 as stated: every record is a returned root or a child of exactly one
\* other record.
C7_RootOrOneOtherParent ==
    inits.returned =>
        \A p \in Keys :
            \/ p \in inits.pids
            \/ Cardinality(Parents(p) \ {p}) = 1

\* C7 as amended: every record is either a returned root, and then a child
\* of no record, or a child of at least one record (itself or another).
C7_RootOrSomeParent ==
    inits.returned =>
        \A p \in Keys :
            /\ p \in inits.pids => Parents(p) = {}
            /\ p \notin inits.pids => Parents(p) # {}

\* A record with two parents and a record whose only parent is itself.
C7_Witness ==
    /\ inits.returned
    /\ \E p \in Keys : Cardinality(Parents(p) \ {p}) = 2
    /\ \E p \in Keys : Parents(p) = {p}

\* C8 as stated: every record that is not a returned root is reachable from
\* a returned root by children edges.
C8_ReachableFromRoot ==
    inits.returned => Keys \ inits.pids \subseteq Reach(inits.pids)

\* C8 as amended: every record that is not a returned root is reachable by
\* children edges from a returned root or from a record that is its own
\* descendant.
C8_ReachableFromRootOrCycle ==
    inits.returned =>
        \A p \in Keys \ inits.pids :
            \/ p \in Reach(inits.pids)
            \/ \E c \in Keys : OnCycle(c) /\ p \in Reach({c})

\* A root, its child and its grandchild, with no cycle anywhere.
C8_Witness ==
    /\ inits.returned
    /\ \A c \in Keys : ~OnCycle(c)
    /\ \E r \in inits.pids : \E a \in procs[r].children :
          \E b \in procs[a].children : b \notin procs[r].children

----------------------------------------------------------------------------
(* __main__: for each returned root, _print_proc then _ln_tree *)

ArgsShown == 64

\* The interpreter's limit on nested calls, scaled to the model: above the
\* depth of any walk over records that are not their own descendants.
RecursionLimit == NPids + 2

RECURSIVE Sorted(_)
Sorted(S) == IF S = {} THEN <<>> ELSE <<Min(S)>> \o Sorted(S \ {Min(S)})

\* tree(...).values(): the roots in the order their files were given
InitsValues(ps) == Sorted(Inits(ps))

\* lines 87-90: the line _print_proc prints for a record
PrintLine(rec, indent) ==
    IF rec.named
    THEN <<indent * 2, rec.pid, execve_basename(rec),
           SubSeq(rec.args, 1, IF Len(rec.args) < ArgsShown
                               THEN Len(rec.args) ELSE ArgsShown)>>
    ELSE <<indent * 2, rec.pid, rec.name>>

\* line 95: os.path.join(path, f"{proc.pid}.{proc.execve_basename}")
JoinDir(path, rec) ==
    Append(path, ShowNat(rec.pid) \o <<".">> \o execve_basename(rec))

\* line 96: os.makedirs(path, exist_ok=True) creates every missing ancestor
MakeDirs(ds, path) == ds \cup {SubSeq(path, 1, k) : k \in 1..Len(path)}

\* Mutant: the link is created without looking for an existing one.
Missing_Always(ls, filename) == TRUE

\* line 98: not os.path.exists(filename)
Missing(ls, filename) == \A l \in ls : l.path # filename

Frame(p, path, indent) ==
    [proc |-> p, todo |-> procs[p].children, path |-> path, indent |-> indent]

Top == stack[Len(stack)]
Pop == SubSeq(stack, 1, Len(stack) - 1)
\* The caller's loop has moved past child c, and the callee's frame is on top.
Push(c, fr) ==
    IF stack = <<>> THEN <<fr>>
    ELSE Append([stack EXCEPT ![Len(stack)].todo = @ \ {c}], fr)

\* The state when tree() has returned.  The walk reads `named` only to choose
\* what to print, so the collections walked are those whose even pids executed
\* a program and whose odd pids did not.
InitWalk ==
    /\ \E K \in SUBSET Pids \ {{}} :
          \E cl \in [K -> SUBSET Pids] :
              LET ps == [p \in K |-> Scanned(p, p % 2 = 0, cl[p])]
              IN  /\ procs = TreeProcs(ps)
                  /\ inits = [returned |-> TRUE, pids |-> Inits(ps)]
                  /\ roots = InitsValues(ps)
    /\ run = 1 /\ pc = "main" /\ phase = "none"
    /\ stack = <<>> /\ out = <<>> /\ dirs = {} /\ links = {}
    /\ linked = 0 /\ fs1 = NoFs
    /\ file = <<>> /\ lineno = 0 /\ sf = NewStraceFile(FileName(1))

\* Entering _print_proc(proc, indent): the print at lines 87-90
PrintEnter(c, indent) ==
    /\ out' = Append(out, PrintLine(procs[c], indent))
    /\ stack' = Push(c, Frame(c, <<>>, indent))

\* Entering _ln_tree(path, proc): lines 95-99
LnEnter(c, parent) ==
    LET path     == JoinDir(parent, procs[c])
        filename == Append(path, <<"strace">>)
    IN  /\ dirs' = MakeDirs(dirs, path)
        /\ IF Missing(links, filename)
           THEN IF \E l \in links : l.path = filename
                THEN \* os.link raises FileExistsError
                     /\ pc' = "FileExistsError"
                     /\ UNCHANGED <<links, linked, stack>>
                ELSE /\ links' = links \cup
                                   {[path |-> filename, src |-> procs[c].filename]}
                     /\ linked' = linked + 1
                     /\ stack' = Push(c, Frame(c, path, 0))
                     /\ pc' = pc
           ELSE /\ stack' = Push(c, Frame(c, path, 0))
                /\ UNCHANGED <<links, linked, pc>>

\* line 104: _print_proc(init)
StartPrint ==
    /\ pc = "main" /\ phase = "none" /\ roots # <<>>
    /\ PrintEnter(Head(roots), 0)
    /\ phase' = "print"
    /\ UNCHANGED <<scanVars, treeVars, run, pc, roots, dirs, links, linked, fs1>>

\* lines 91-92: the next child of the loop, in the set's own order
PrintChild ==
    /\ pc = "main" /\ phase = "print" /\ stack # <<>>
    /\ Len(stack) < RecursionLimit
    /\ \E c \in Top.todo : PrintEnter(c, Top.indent + 1)
    /\ UNCHANGED <<scanVars, treeVars, run, pc, roots, phase, dirs, links,
                   linked, fs1>>

\* line 92 when the interpreter refuses one more nested call: the program
\* ends with a RecursionError traceback.
PrintOverflow ==
    /\ pc = "main" /\ phase = "print" /\ stack # <<>>
    /\ Len(stack) >= RecursionLimit
    /\ Top.todo # {}
    /\ pc' = "RecursionError"
    /\ UNCHANGED <<scanVars, treeVars, run, roots, phase, stack, out, dirs,
                   links, linked, fs1>>

\* _print_proc returns once its loop is exhausted
PrintReturn ==
    /\ pc = "main" /\ phase = "print" /\ stack # <<>>
    /\ Top.todo = {}
    /\ stack' = Pop
    /\ phase' = IF Len(stack) = 1 THEN "printed" ELSE "print"
    /\ UNCHANGED <<scanVars, treeVars, run, pc, roots, out, dirs, links,
                   linked, fs1>>

\* line 105: _ln_tree("tree", init)
StartLn ==
    /\ pc = "main" /\ phase = "printed"
    /\ LnEnter(Head(roots), <<(<<"tree">>)>>)
    /\ phase' = "ln"
    /\ UNCHANGED <<scanVars, treeVars, run, roots, out, fs1>>

\* lines 100-101
LnChild ==
    /\ pc = "main" /\ phase = "ln" /\ stack # <<>>
    /\ \E c \in Top.todo :
          IF Len(stack) < RecursionLimit
          THEN LnEnter(c, Top.path)
          ELSE /\ pc' = "RecursionError"
               /\ UNCHANGED <<stack, dirs, links, linked>>
    /\ UNCHANGED <<scanVars, treeVars, run, roots, phase, out, fs1>>

\* _ln_tree returns; back in the loop at line 103 when it was the root's call
LnReturn ==
    /\ pc = "main" /\ phase = "ln" /\ stack # <<>>
    /\ Top.todo = {}
    /\ stack' = Pop
    /\ IF Len(stack) = 1
       THEN phase' = "none" /\ roots' = Tail(roots)
       ELSE UNCHANGED <<phase, roots>>
    /\ UNCHANGED <<scanVars, treeVars, run, pc, out, dirs, links, linked, fs1>>

\* the loop at line 103 is exhausted
Finish ==
    /\ pc = "main" /\ phase = "none" /\ roots = <<>>
    /\ pc' = "done"
    /\ UNCHANGED <<scanVars, treeVars, run, roots, phase, stack, out, dirs,
                   links, linked, fs1>>

\* The program is run a second time on the same files, in the directory the
\* first run left behind.
Rerun ==
    /\ run = 1 /\ pc \in {"done", "RecursionError", "FileExistsError"}
    /\ run' = 2
    /\ fs1' = [dirs |-> dirs, links |-> links]
    /\ pc' = "main" /\ phase' = "none"
    /\ roots' = Sorted(inits.pids)
    /\ stack' = <<>> /\ out' = <<>> /\ linked' = 0
    /\ UNCHANGED <<scanVars, treeVars, dirs, links>>

NextWalk ==
    \/ StartPrint \/ PrintChild \/ PrintOverflow \/ PrintReturn
    \/ StartLn \/ LnChild \/ LnReturn \/ Finish \/ Rerun

SpecWalk == InitWalk /\ [][NextWalk]_vars

----------------------------------------------------------------------------
(* Claims about the walk (SpecWalk) *)

\* C9: the second run over the same forest, started in the directory the
\* first run left, calls os.link not once, fails on no link, holds no two
\* links of one path, and leaves directories and links as the first run did.
C9_SecondRunChangesNothing ==
    run = 2 =>
        /\ linked = 0
        /\ pc # "FileExistsError"
        /\ \A l1, l2 \in links : l1.path = l2.path => l1 = l2
        /\ dirs = fs1.dirs
        /\ links = fs1.links

\* The second run has finished over a forest with a link three levels deep.
C9_Witness ==
    /\ run = 2 /\ pc = "done"
    /\ \E l \in links : Len(l.path) = 5
    /\ Cardinality(links) >= 3

\* C10: the walk from every returned root returns, whatever the clones sets
\* hold: no record is entered while a call for it is still on the stack, and
\* the recursion never runs into the interpreter's limit.
C10_WalkTerminates ==
    /\ pc # "RecursionError"
    /\ \A i, j \in 1..Len(stack) : stack[i].proc = stack[j].proc => i = j

====
